---- MODULE Spec2Model ----
(***************************************************************************)
(* Model of the multi-agent paper reviewer: the LangGraph orchestrator     *)
(* (agents/orchestrator.py), the agents' process_message adapters          *)
(* (agents/*_agent.py) and the MCP message helpers                         *)
(* (mcp_server/base_server.py).                                            *)
(*                                                                         *)
(* Python dicts are records of a fixed shape; a key that is not in the     *)
(* dict holds Absent, a key bound to None holds None.  Formatted strings   *)
(* are tuples of their parts.  Message ids and timestamps are left out.    *)
(***************************************************************************)
EXTENDS Integers, Sequences, FiniteSets, TLC

\* ------------------------------------------------------------------ bounds
NumData == 2
NumSessions == 2
NumSockets == 2
MaxFrames == 2

\* ------------------------------------------------------------ value model
Absent == "<absent>"
None == "None"
EmptyMap == "{}"
\* a dict whose overall_score / related_papers entry is not of the expected type
BadDict == "bad_dict"

DataNames == <<"d1", "d2", "d3", "d4">>
SessionNames == <<"s1", "s2", "s3", "s4">>

\* non-empty, well-formed result payloads
Data == {DataNames[i] : i \in 1..NumData}
SessionIds == {SessionNames[i] : i \in 1..NumSessions}
Sources == {"paperA"}
SourceTypes == {"pdf", "arxiv_id"}

\* what a stage's internal logic may hand back as its result
ResultData == Data \cup {EmptyMap, None, BadDict}

\* outcome of a stage's internal logic: a result, or an exception
LogicOutcomes ==
    [ok : {TRUE}, data : ResultData, err : {Absent}]
        \cup [ok : {FALSE}, data : {Absent}, err : {"boom"}]

\* ------------------------------------------------------- message envelopes
\* the data object of a request payload
NoData == [tag |-> "absent", source |-> Absent, source_type |-> Absent,
           paper_content |-> Absent, critic_analysis |-> Absent,
           citation_data |-> Absent, max_related |-> Absent]
NoneData == [NoData EXCEPT !.tag = "none"]
EmptyData == [NoData EXCEPT !.tag = "dict"]

\* an envelope as a stage returns it
NoEnvelope == [message_type |-> Absent, sender |-> Absent, receiver |-> Absent,
               action |-> Absent, data |-> Absent, error |-> <<>>,
               context |-> Absent]

\* the result of calling process_message: an envelope, or a raised exception
Returned(env) == [raised |-> FALSE, exc |-> <<>>, env |-> env]
Raised(text) == [raised |-> TRUE, exc |-> text, env |-> NoEnvelope]

\* message.get("payload", {}).get("action")
PayloadAction(message) ==
    IF ~message.payload \/ message.action = Absent THEN None ELSE message.action

\* message.get("payload", {}).get("data", {})
PayloadData(message) ==
    IF ~message.payload \/ message.data.tag = "absent" THEN EmptyData
    ELSE message.data

\* message.get("context", {})
ContextOf(message) ==
    IF message.context = Absent THEN EmptyMap ELSE message.context

\* message.get("sender")
SenderOf(message) ==
    IF message.sender = Absent THEN None ELSE message.sender

\* process_message falling back to its own action when the message names none
AgentProcessMessage_default_action(name, declared, message, logic) ==
    LET action == PayloadAction(message)
        data == PayloadData(message)
    IN  IF action = declared \/ action = None
        THEN IF data.tag = "none"
             THEN Raised(<<"AttributeError">>)
             ELSE IF logic.ok
                  THEN Returned([message_type |-> "response",
                                 sender |-> name,
                                 receiver |-> SenderOf(message),
                                 action |-> declared,
                                 data |-> logic.data,
                                 error |-> <<>>,
                                 context |-> ContextOf(message)])
                  ELSE Returned([message_type |-> "error",
                                 sender |-> name,
                                 receiver |-> SenderOf(message),
                                 action |-> action,
                                 data |-> Absent,
                                 error |-> <<logic.err>>,
                                 context |-> ContextOf(message)])
        ELSE Returned([NoEnvelope EXCEPT !.message_type = "error",
                                         !.error = <<"Unknown action: ", action>>])

\* the body shared by the four agents' process_message
AgentProcessMessage(name, declared, message, logic) ==
    LET action == PayloadAction(message)
        data == PayloadData(message)
    IN  IF action = declared
        THEN IF data.tag = "none"
             THEN Raised(<<"AttributeError">>)
             ELSE IF logic.ok
                  THEN Returned([message_type |-> "response",
                                 sender |-> name,
                                 receiver |-> SenderOf(message),
                                 action |-> declared,
                                 data |-> logic.data,
                                 error |-> <<>>,
                                 context |-> ContextOf(message)])
                  ELSE Returned([message_type |-> "error",
                                 sender |-> name,
                                 receiver |-> SenderOf(message),
                                 action |-> action,
                                 data |-> Absent,
                                 error |-> <<logic.err>>,
                                 context |-> ContextOf(message)])
        ELSE Returned([NoEnvelope EXCEPT !.message_type = "error",
                                         !.error = <<"Unknown action: ", action>>])

ReaderAgent_process_message(message, logic) ==
    AgentProcessMessage("ReaderAgent", "extract_paper", message, logic)

CriticAgent_process_message(message, logic) ==
    AgentProcessMessage("CriticAgent", "analyze_paper", message, logic)

CiteAgent_process_message(message, logic) ==
    AgentProcessMessage("CiteAgent", "analyze_citations", message, logic)

MetaReviewerAgent_process_message(message, logic) ==
    AgentProcessMessage("MetaReviewerAgent", "generate_review", message, logic)

Agents == {"ReaderAgent", "CriticAgent", "CiteAgent", "MetaReviewerAgent"}

\* the one action an agent's process_message dispatches on
DeclaredAction(agent) ==
    CASE agent = "ReaderAgent" -> "extract_paper"
      [] agent = "CriticAgent" -> "analyze_paper"
      [] agent = "CiteAgent" -> "analyze_citations"
      [] agent = "MetaReviewerAgent" -> "generate_review"

\* process_message reaches the call of the agent's stage logic: the action
\* matched and reading the request data did not raise
LogicInvoked(agent, message) ==
    /\ PayloadAction(message) = DeclaredAction(agent)
    /\ PayloadData(message).tag # "none"

process_message(agent, message, logic) ==
    CASE agent = "ReaderAgent" -> ReaderAgent_process_message(message, logic)
      [] agent = "CriticAgent" -> CriticAgent_process_message(message, logic)
      [] agent = "CiteAgent" -> CiteAgent_process_message(message, logic)
      [] agent = "MetaReviewerAgent" ->
            MetaReviewerAgent_process_message(message, logic)

\* ------------------------------------------------------------- MCPMessage
create_request(sender, receiver, action, data, context) ==
    [message_type |-> "request",
     sender |-> sender,
     receiver |-> receiver,
     payload |-> TRUE,
     action |-> action,
     data |-> data,
     context |-> IF context \in {None, EmptyMap} THEN EmptyMap ELSE context]

create_response(original_message, sender, data) ==
    [message_type |-> "response",
     sender |-> sender,
     receiver |-> SenderOf(original_message),
     action |-> PayloadAction(original_message),
     data |-> data,
     error |-> <<>>,
     context |-> ContextOf(original_message)]

\* create_error with the action left out of the payload
create_error_no_action(original_message, sender, error) ==
    [message_type |-> "error",
     sender |-> sender,
     receiver |-> SenderOf(original_message),
     action |-> Absent,
     data |-> Absent,
     error |-> <<error>>,
     context |-> ContextOf(original_message)]

create_error(original_message, sender, error) ==
    [message_type |-> "error",
     sender |-> sender,
     receiver |-> SenderOf(original_message),
     action |-> PayloadAction(original_message),
     data |-> Absent,
     error |-> <<error>>,
     context |-> ContextOf(original_message)]

\* ------------------------------------------------------------ ReviewState
\* the channels of the compiled graph before any input is written
NoState == [paper_source |-> Absent, source_type |-> Absent,
            session_id |-> Absent,
            paper_content |-> Absent, critic_analysis |-> Absent,
            citation_data |-> Absent, final_review |-> Absent,
            errors |-> <<>>, stage |-> Absent, tool_calls |-> 0]

\* the initial_state literal of review_paper
initial_state(paper_source, source_type, session_id) ==
    [paper_source |-> paper_source, source_type |-> source_type,
     session_id |-> session_id,
     paper_content |-> EmptyMap, critic_analysis |-> EmptyMap,
     citation_data |-> EmptyMap, final_review |-> EmptyMap,
     errors |-> <<>>, stage |-> "initialized", tool_calls |-> 0]

\* a reducer that keeps only the entries the node added
operator_add_newest(a, b) ==
    IF Len(b) > Len(a) THEN SubSeq(b, Len(a) + 1, Len(b)) ELSE <<>>

\* the reducer declared for the errors channel
operator_add(a, b) == a \o b

\* a node's returned state is written to the channels: errors goes through
\* its reducer, every other key replaces the channel's value
ApplyWrites(channels, returned) ==
    [returned EXCEPT !.errors = operator_add(channels.errors, returned.errors)]

\* ----------------------------------------------------------- the workflow
Nodes == <<"extract", "analyze", "find_citations", "generate_review">>
END == "__end__"
EntryPoint == "extract"

\* the edges with "generate_review" wired back to the entry point
Edge_loop_back(n) ==
    CASE n = "extract" -> "analyze"
      [] n = "analyze" -> "find_citations"
      [] n = "find_citations" -> "generate_review"
      [] n = "generate_review" -> "extract"

\* the edges with "analyze" wired straight to "generate_review"
Edge_skip_citations(n) ==
    CASE n = "extract" -> "analyze"
      [] n = "analyze" -> "generate_review"
      [] n = "find_citations" -> "generate_review"
      [] n = "generate_review" -> "__end__"

\* the edges added by _build_workflow
Edge(n) ==
    CASE n = "extract" -> "analyze"
      [] n = "analyze" -> "find_citations"
      [] n = "find_citations" -> "generate_review"
      [] n = "generate_review" -> END

\* the agent a node calls
AgentOf(n) ==
    CASE n = "extract" -> "ReaderAgent"
      [] n = "analyze" -> "CriticAgent"
      [] n = "find_citations" -> "CiteAgent"
      [] n = "generate_review" -> "MetaReviewerAgent"

\* the request's context
RequestContext(state) ==
    IF state.session_id = Absent THEN None ELSE state.session_id

\* ---- extract_paper
extract_paper_entry(state) ==
    [state EXCEPT !.stage = "extraction", !.tool_calls = @ + 1]

extract_paper_request(state) ==
    [message_type |-> "request", sender |-> "orchestrator",
     receiver |-> "ReaderAgent", payload |-> TRUE,
     action |-> "extract_paper",
     data |-> [EmptyData EXCEPT !.source = state.paper_source,
                                !.source_type = state.source_type],
     context |-> RequestContext(state)]

\* the node marking its output slot when the agent answers with an error
extract_paper_merge_marks_slot(state, out) ==
    IF out.raised
    THEN [state EXCEPT !.errors = @ \o << <<"Extraction failed: ">> \o out.exc >>]
    ELSE IF out.env.message_type = "response"
         THEN LET stored == [state EXCEPT !.paper_content = out.env.data]
              IN  IF out.env.data = None
                  THEN [stored EXCEPT !.errors =
                            @ \o << <<"Extraction failed: ", "AttributeError">> >>]
                  ELSE stored
         ELSE [state EXCEPT !.errors =
                   @ \o << <<"Reader Agent error: ">> \o out.env.error >>,
                            !.paper_content = None]

extract_paper_merge(state, out) ==
    IF out.raised
    THEN [state EXCEPT !.errors = @ \o << <<"Extraction failed: ">> \o out.exc >>]
    ELSE IF out.env.message_type = "response"
         THEN LET stored == [state EXCEPT !.paper_content = out.env.data]
              IN  IF out.env.data = None
                  THEN [stored EXCEPT !.errors =
                            @ \o << <<"Extraction failed: ", "AttributeError">> >>]
                  ELSE stored
         ELSE [state EXCEPT !.errors =
                   @ \o << <<"Reader Agent error: ">> \o out.env.error >>]

\* ---- analyze_paper
\* the node not recording the agent's error envelope
analyze_paper_merge_silent(state, out) ==
    IF out.raised
    THEN [state EXCEPT !.errors = @ \o << <<"Analysis failed: ">> \o out.exc >>]
    ELSE IF out.env.message_type = "response"
         THEN LET stored == [state EXCEPT !.critic_analysis = out.env.data]
              IN  IF out.env.data = None
                  THEN [stored EXCEPT !.errors =
                            @ \o << <<"Analysis failed: ", "AttributeError">> >>]
                  ELSE IF out.env.data = BadDict
                  THEN [stored EXCEPT !.errors =
                            @ \o << <<"Analysis failed: ", "TypeError">> >>]
                  ELSE stored
         ELSE state

\* the node entry counting the call without recording its stage
analyze_paper_entry_keep_stage(state) ==
    [state EXCEPT !.tool_calls = @ + 1]

analyze_paper_entry(state) ==
    [state EXCEPT !.stage = "analysis", !.tool_calls = @ + 1]

analyze_paper_request(state) ==
    [message_type |-> "request", sender |-> "orchestrator",
     receiver |-> "CriticAgent", payload |-> TRUE,
     action |-> "analyze_paper",
     data |-> [EmptyData EXCEPT !.paper_content = state.paper_content],
     context |-> RequestContext(state)]

analyze_paper_merge(state, out) ==
    IF out.raised
    THEN [state EXCEPT !.errors = @ \o << <<"Analysis failed: ">> \o out.exc >>]
    ELSE IF out.env.message_type = "response"
         THEN LET stored == [state EXCEPT !.critic_analysis = out.env.data]
              IN  IF out.env.data = None
                  THEN [stored EXCEPT !.errors =
                            @ \o << <<"Analysis failed: ", "AttributeError">> >>]
                  ELSE IF out.env.data = BadDict
                  THEN [stored EXCEPT !.errors =
                            @ \o << <<"Analysis failed: ", "TypeError">> >>]
                  ELSE stored
         ELSE [state EXCEPT !.errors =
                   @ \o << <<"Critic Agent error: ">> \o out.env.error >>]

\* ---- find_citations
\* the node entry without the tool_calls increment
find_citations_entry_no_count(state) ==
    [state EXCEPT !.stage = "citation_analysis"]

\* the node with the except clause not resetting citation_data
find_citations_merge_no_reset(state, out) ==
    IF out.raised
    THEN [state EXCEPT
            !.errors = @ \o << <<"Citation analysis failed: ">> \o out.exc >>]
    ELSE IF out.env.message_type = "response"
         THEN LET stored == [state EXCEPT !.citation_data = out.env.data]
              IN  IF out.env.data = None
                  THEN [stored EXCEPT
                          !.errors = @ \o
                            << <<"Citation analysis failed: ", "AttributeError">> >>]
                  ELSE IF out.env.data = BadDict
                  THEN [stored EXCEPT
                          !.errors = @ \o
                            << <<"Citation analysis failed: ", "TypeError">> >>]
                  ELSE stored
         ELSE [state EXCEPT
                 !.errors = @ \o << <<"CiteAgent error: ">> \o out.env.error >>,
                 !.citation_data = EmptyMap]

\* the node dropping the extraction output along with citation_data when
\* the citation agent fails
find_citations_merge_clears_paper(state, out) ==
    IF out.raised
    THEN [state EXCEPT
            !.errors = @ \o << <<"Citation analysis failed: ">> \o out.exc >>,
            !.citation_data = EmptyMap,
            !.paper_content = EmptyMap]
    ELSE IF out.env.message_type = "response"
         THEN LET stored == [state EXCEPT !.citation_data = out.env.data]
              IN  IF out.env.data = None
                  THEN [stored EXCEPT
                          !.errors = @ \o
                            << <<"Citation analysis failed: ", "AttributeError">> >>,
                          !.citation_data = EmptyMap]
                  ELSE IF out.env.data = BadDict
                  THEN [stored EXCEPT
                          !.errors = @ \o
                            << <<"Citation analysis failed: ", "TypeError">> >>,
                          !.citation_data = EmptyMap]
                  ELSE stored
         ELSE [state EXCEPT
                 !.errors = @ \o << <<"CiteAgent error: ">> \o out.env.error >>,
                 !.citation_data = EmptyMap,
                 !.paper_content = EmptyMap]

find_citations_entry(state) ==
    [state EXCEPT !.stage = "citation_analysis", !.tool_calls = @ + 1]

find_citations_request(state) ==
    [message_type |-> "request", sender |-> "orchestrator",
     receiver |-> "CiteAgent", payload |-> TRUE,
     action |-> "analyze_citations",
     data |-> [EmptyData EXCEPT !.paper_content = state.paper_content,
                                !.max_related = "10"],
     context |-> RequestContext(state)]

find_citations_merge(state, out) ==
    IF out.raised
    THEN [state EXCEPT
            !.errors = @ \o << <<"Citation analysis failed: ">> \o out.exc >>,
            !.citation_data = EmptyMap]
    ELSE IF out.env.message_type = "response"
         THEN LET stored == [state EXCEPT !.citation_data = out.env.data]
              IN  IF out.env.data = None
                  THEN [stored EXCEPT
                          !.errors = @ \o
                            << <<"Citation analysis failed: ", "AttributeError">> >>,
                          !.citation_data = EmptyMap]
                  ELSE IF out.env.data = BadDict
                  THEN [stored EXCEPT
                          !.errors = @ \o
                            << <<"Citation analysis failed: ", "TypeError">> >>,
                          !.citation_data = EmptyMap]
                  ELSE stored
         ELSE [state EXCEPT
                 !.errors = @ \o << <<"CiteAgent error: ">> \o out.env.error >>,
                 !.citation_data = EmptyMap]

\* ---- generate_review
\* the node entry without the stage assignment
generate_review_entry_no_stage(state) ==
    [state EXCEPT !.tool_calls = @ + 1]

\* the node dropping the extraction output when it builds on a citation
\* failure (citation_data empty)
generate_review_merge_degraded(state, out) ==
    IF out.raised
    THEN [state EXCEPT
            !.errors = @ \o << <<"Review generation failed: ">> \o out.exc >>]
    ELSE IF out.env.message_type = "response"
         THEN [state EXCEPT !.final_review = out.env.data,
                            !.paper_content =
                                IF state.citation_data = EmptyMap
                                THEN EmptyMap ELSE @]
         ELSE [state EXCEPT !.errors =
                   @ \o << <<"MetaReviewer error: ">> \o out.env.error >>]

generate_review_entry(state) ==
    [state EXCEPT !.stage = "review_generation", !.tool_calls = @ + 1]

\* the synthesis request built without the stored critique
generate_review_request_no_critic(state) ==
    [message_type |-> "request", sender |-> "orchestrator",
     receiver |-> "MetaReviewerAgent", payload |-> TRUE,
     action |-> "generate_review",
     data |-> [EmptyData EXCEPT !.paper_content = state.paper_content,
                                !.citation_data = state.citation_data],
     context |-> RequestContext(state)]

generate_review_request(state) ==
    [message_type |-> "request", sender |-> "orchestrator",
     receiver |-> "MetaReviewerAgent", payload |-> TRUE,
     action |-> "generate_review",
     data |-> [EmptyData EXCEPT !.paper_content = state.paper_content,
                                !.critic_analysis = state.critic_analysis,
                                !.citation_data = state.citation_data],
     context |-> RequestContext(state)]

generate_review_merge(state, out) ==
    IF out.raised
    THEN [state EXCEPT
            !.errors = @ \o << <<"Review generation failed: ">> \o out.exc >>]
    ELSE IF out.env.message_type = "response"
         THEN [state EXCEPT !.final_review = out.env.data]
         ELSE [state EXCEPT !.errors =
                   @ \o << <<"MetaReviewer error: ">> \o out.env.error >>]

\* ---- dispatch on the node
NodeEntry(n, state) ==
    CASE n = "extract" -> extract_paper_entry(state)
      [] n = "analyze" -> analyze_paper_entry(state)
      [] n = "find_citations" -> find_citations_entry(state)
      [] n = "generate_review" -> generate_review_entry(state)

NodeRequest(n, state) ==
    CASE n = "extract" -> extract_paper_request(state)
      [] n = "analyze" -> analyze_paper_request(state)
      [] n = "find_citations" -> find_citations_request(state)
      [] n = "generate_review" -> generate_review_request(state)

NodeMerge(n, state, out) ==
    CASE n = "extract" -> extract_paper_merge(state, out)
      [] n = "analyze" -> analyze_paper_merge(state, out)
      [] n = "find_citations" -> find_citations_merge(state, out)
      [] n = "generate_review" -> generate_review_merge(state, out)

\* what a call of an agent's process_message may produce: the agent's
\* envelope for some outcome of its stage logic, or an exception raised by
\* the agent object itself
AdapterOutcomes(agent, message) ==
    {process_message(agent, message, logic) : logic \in LogicOutcomes}
        \cup {Raised(<<"adapter raised">>)}

\* ---- the value review_paper returns
NoResult == [kind |-> "none"]

NormalResult(session_id, final_state) ==
    [kind |-> "normal",
     session_id |-> session_id,
     paper_content |-> final_state.paper_content,
     critic_analysis |-> final_state.critic_analysis,
     citation_data |-> final_state.citation_data,
     final_review |-> final_state.final_review,
     metadata |-> [tool_calls |-> final_state.tool_calls,
                   errors |-> final_state.errors]]

FailureResult(session_id, text) ==
    [kind |-> "failure",
     session_id |-> session_id,
     error |-> text,
     metadata |-> [failed |-> TRUE]]

\* ---- the checkpointer
NotFound == [found |-> FALSE]

\* a checkpoint that leaves the errors channel out
Snapshot_without_errors(channels) ==
    [found |-> TRUE, values |-> [channels EXCEPT !.errors = <<>>]]

Snapshot(channels) == [found |-> TRUE, values |-> channels]

\* a store that keeps a thread's first checkpoint
save_keep_first(store, thread_id, channels) ==
    IF store[thread_id].found THEN store
    ELSE [store EXCEPT ![thread_id] = Snapshot(channels)]

\* a store that files every checkpoint under one thread id
save_shared_thread(store, thread_id, channels) ==
    [store EXCEPT ![SessionNames[1]] = Snapshot(channels)]

save(store, thread_id, channels) ==
    [store EXCEPT ![thread_id] = Snapshot(channels)]
load(store, thread_id) == store[thread_id]

\* find_citations without its except clause
Catches_not_citations(n, out) == n # "find_citations"

\* analyze_paper without its except clause
Catches_not_analyze(n, out) == n # "analyze"

\* the except clause of a node's try block: "except Exception" catches
\* every exception the adapter call raises
Catches(n, out) == TRUE

\* ------------------------------------------------------- the MCP server
\* the websockets that connect to one server, and the frames each sends
WebSocketNames == <<"ws1", "ws2", "ws3", "ws4">>
WebSockets == {WebSocketNames[i] : i \in 1..NumSockets}

\* a handle_websocket coroutine: where it is, the frames it has received,
\* what it did with them in order, and how it ended
NoHandler == [pc |-> "unconnected", received |-> 0, log |-> <<>>,
              ended |-> "no"]

\* list.remove(x): the list without its first element equal to x
RECURSIVE list_remove(_, _)
list_remove(list, x) ==
    IF list = <<>> THEN <<>>
    ELSE IF Head(list) = x THEN Tail(list)
    ELSE <<Head(list)>> \o list_remove(Tail(list), x)

\* x in list
list_contains(list, x) == \E i \in DOMAIN list : list[i] = x

\* except WebSocketDisconnect: remove the websocket
on_disconnect(connections, websocket) == list_remove(connections, websocket)

\* the handler ending on an exception without touching the list
on_exception_leaves_connection(connections, websocket) == connections

\* except Exception: remove the websocket if it is in the list
on_exception(connections, websocket) ==
    IF list_contains(connections, websocket)
    THEN list_remove(connections, websocket)
    ELSE connections

\* /health: the connections count it reports
health(connections) == Len(connections)

\* /process letting the agent's exception through
process_endpoint_reraises(out) == out

\* /process: the agent's envelope, or an error envelope with the text of
\* the exception process_message raised
process_endpoint(out) ==
    IF out.raised
    THEN Returned([NoEnvelope EXCEPT !.message_type = "error",
                                     !.error = out.exc])
    ELSE out

\* ------------------------------------------------------------------ state
VARIABLES
    pc,         \* where review_paper is: idle, node, calling, returned
    node,       \* the node the graph runs next
    session,    \* review_paper's session_id
    channels,   \* the graph's channel values (the ReviewState between nodes)
    state,      \* the state dict the running node works on
    message,    \* the request envelope last built
    response,   \* what the last process_message call produced
    memory,     \* the MemorySaver: thread id -> last checkpoint
    result,     \* the value review_paper returned
    calls,      \* history: the agents whose process_message was called
    finished,   \* history: the nodes that have returned
    outs,       \* history: what each process_message call produced
    origin,     \* how message was made: orchestrator, create_request, raw
    lastOp,     \* the operation that made response
    invoked,    \* history: the agents whose stage logic was run
    writeFailed, \* history: a checkpoint write of this run raised
    runs,       \* the runs of the concurrent specification, by run number
    server_agent, \* BaseMCPServer.agent: the agent the server wraps
    active_connections, \* BaseMCPServer.active_connections
    handlers    \* the handle_websocket coroutines, by websocket

vars == <<pc, node, session, channels, state, message, response, memory,
          result, calls, finished, outs, origin, lastOp, invoked,
          writeFailed, runs, server_agent, active_connections, handlers>>

\* the server's state is left alone
ServerFrame == UNCHANGED <<server_agent, active_connections, handlers>>

NoMessage == [message_type |-> Absent, sender |-> Absent, receiver |-> Absent,
              payload |-> FALSE, action |-> Absent, data |-> NoData,
              context |-> Absent]
NoOutcome == Returned(NoEnvelope)

\* a review_paper call that has not started
NoRun == [pc |-> "idle", node |-> EntryPoint, session |-> Absent,
          paper_source |-> Absent, channels |-> NoState, state |-> NoState,
          message |-> NoMessage, calls |-> <<>>, finished |-> <<>>,
          outs |-> <<>>, result |-> NoResult]
RunIds == {1, 2}

Init ==
    /\ pc = "idle"
    /\ node = EntryPoint
    /\ session = Absent
    /\ channels = NoState
    /\ state = NoState
    /\ message = NoMessage
    /\ response = NoOutcome
    /\ memory = [t \in SessionIds |-> NotFound]
    /\ result = NoResult
    /\ calls = <<>>
    /\ finished = <<>>
    /\ outs = <<>>
    /\ origin = "none"
    /\ lastOp = "none"
    /\ invoked = <<>>
    /\ writeFailed = FALSE
    /\ runs = [r \in RunIds |-> NoRun]
    /\ server_agent = Absent
    /\ active_connections = <<>>
    /\ handlers = [w \in WebSockets |-> NoHandler]

\* review_paper up to the start of app.invoke: a fresh session id, the
\* initial state written to the channels and checkpointed
ReviewPaper(paper_source, source_type, session_id) ==
    /\ pc = "idle"
    /\ load(memory, session_id) = NotFound
    /\ session' = session_id
    /\ channels' = ApplyWrites(NoState,
                       initial_state(paper_source, source_type, session_id))
    /\ memory' = save(memory, session_id, channels')
    /\ node' = EntryPoint
    /\ pc' = "node"
    /\ UNCHANGED <<state, message, response, result, calls, finished, outs,
                   origin, lastOp, invoked, writeFailed, runs>>
    /\ ServerFrame

\* a node from its entry to the call of its agent's process_message
EnterNode ==
    /\ pc = "node"
    /\ node # END
    /\ state' = NodeEntry(node, channels)
    /\ message' = NodeRequest(node, state')
    /\ origin' = "orchestrator"
    /\ calls' = Append(calls, AgentOf(node))
    /\ pc' = "calling"
    /\ UNCHANGED <<node, session, channels, response, memory, result,
                   finished, outs, lastOp, invoked, writeFailed, runs>>
    /\ ServerFrame

\* process_message comes back; the node merges the outcome and returns its
\* state, the graph writes it to the channels, checkpoints and follows the
\* node's edge.  An exception the node does not catch leaves app.invoke and
\* review_paper returns the failure result.
LeaveNode ==
    /\ pc = "calling"
    /\ \E out \in AdapterOutcomes(AgentOf(node), message) :
          /\ response' = out
          /\ lastOp' = "process_message"
          /\ outs' = Append(outs, out)
          /\ invoked' = IF LogicInvoked(AgentOf(node), message)
                        THEN Append(invoked, AgentOf(node)) ELSE invoked
          /\ IF out.raised /\ ~Catches(node, out)
             THEN /\ result' = FailureResult(session, out.exc)
                  /\ pc' = "returned"
                  /\ UNCHANGED <<node, state, channels, memory, finished>>
             ELSE /\ state' = NodeMerge(node, state, out)
                  /\ channels' = ApplyWrites(channels, state')
                  /\ memory' = IF writeFailed THEN memory
                                ELSE save(memory, session, channels')
                  /\ finished' = Append(finished, node)
                  /\ node' = Edge(node)
                  /\ pc' = "node"
                  /\ UNCHANGED result
    /\ UNCHANGED <<session, message, calls, origin, writeFailed, runs>>
    /\ ServerFrame

\* app.invoke returns the final state and review_paper builds its result
ReturnResult ==
    /\ pc = "node"
    /\ node = END
    /\ ~writeFailed
    /\ result' = NormalResult(session, channels)
    /\ pc' = "returned"
    /\ UNCHANGED <<node, session, channels, state, message, response, memory,
                   calls, finished, outs, origin, lastOp, invoked, writeFailed, runs>>
    /\ ServerFrame

Next ==
    \/ \E paper_source \in Sources, source_type \in SourceTypes,
          session_id \in SessionIds :
          ReviewPaper(paper_source, source_type, session_id)
    \/ EnterNode
    \/ LeaveNode
    \/ ReturnResult

Spec == Init /\ [][Next]_vars

\* ------------------------------------------ runs with failing checkpoints
\* The graph is compiled with checkpointer=self.memory and nothing around
\* app.invoke handles a failing write.  A write that raises makes app.invoke
\* raise, at once or (when the write runs in the background) when the graph
\* has finished; the later writes of the run are lost with it.
CheckpointError == <<"checkpoint write failed">>

\* a node returns, the graph writes its state to the channels and the
\* checkpoint write raises
CheckpointWriteFails ==
    /\ pc = "calling"
    /\ ~writeFailed
    /\ \E out \in AdapterOutcomes(AgentOf(node), message), late \in BOOLEAN :
          /\ ~(out.raised /\ ~Catches(node, out))
          /\ response' = out
          /\ lastOp' = "process_message"
          /\ outs' = Append(outs, out)
          /\ invoked' = IF LogicInvoked(AgentOf(node), message)
                        THEN Append(invoked, AgentOf(node)) ELSE invoked
          /\ state' = NodeMerge(node, state, out)
          /\ channels' = ApplyWrites(channels, state')
          /\ finished' = Append(finished, node)
          /\ writeFailed' = TRUE
          /\ IF late
             THEN /\ node' = Edge(node)
                  /\ pc' = "node"
                  /\ UNCHANGED result
             ELSE /\ result' = FailureResult(session, CheckpointError)
                  /\ pc' = "returned"
                  /\ UNCHANGED node
    /\ UNCHANGED <<session, message, calls, origin, memory, runs>>
    /\ ServerFrame

\* the graph has finished and app.invoke raises the write's exception;
\* review_paper's except clause returns the failure result
InvokeRaises ==
    /\ pc = "node"
    /\ node = END
    /\ writeFailed
    /\ result' = FailureResult(session, CheckpointError)
    /\ pc' = "returned"
    /\ UNCHANGED <<node, session, channels, state, message, response, memory,
                   calls, finished, outs, origin, lastOp, invoked, writeFailed, runs>>
    /\ ServerFrame

NextCk ==
    \/ Next
    \/ CheckpointWriteFails
    \/ InvokeRaises

SpecCk == Init /\ [][NextCk]_vars

\* ---------------------------------------------------- runs that progress
\* review_paper is straight-line code around app.invoke and the graph runs
\* its nodes one after the other, so each of the coordinator's own steps is
\* taken once it can be; a process_message call that is under way comes
\* back (with an envelope or an exception), after which the checkpoint
\* write succeeds or raises.  Starting a review is the caller's choice.
SpecFair ==
    /\ Init
    /\ [][NextCk]_vars
    /\ WF_vars(EnterNode)
    /\ WF_vars(LeaveNode \/ CheckpointWriteFails)
    /\ WF_vars(ReturnResult)
    /\ WF_vars(InvokeRaises)

\* ------------------------------------------------- two concurrent runs
\* Two review_paper calls on one orchestrator (one self.app, one
\* self.memory, one set of agents), their node steps interleaved in any
\* order.  Each call has its own session id and its own state dicts; the
\* MemorySaver is the one object both write to.
RunSources == <<"paperA", "paperB">>

\* what run r's agents may produce: results and exception texts that name
\* the run's paper, so that they can be told apart
RunLogicOutcomes(r) ==
    {[ok |-> TRUE, data |-> DataNames[r], err |-> Absent],
     [ok |-> FALSE, data |-> Absent, err |-> DataNames[r]]}

RunAdapterOutcomes(r, agent, msg) ==
    {process_message(agent, msg, logic) : logic \in RunLogicOutcomes(r)}
        \cup {Raised(<<"adapter raised">>)}

Init2 ==
    /\ pc = "concurrent"
    /\ node = EntryPoint
    /\ session = Absent
    /\ channels = NoState
    /\ state = NoState
    /\ message = NoMessage
    /\ response = NoOutcome
    /\ memory = [t \in SessionIds |-> NotFound]
    /\ result = NoResult
    /\ calls = <<>>
    /\ finished = <<>>
    /\ outs = <<>>
    /\ origin = "none"
    /\ lastOp = "none"
    /\ invoked = <<>>
    /\ writeFailed = FALSE
    /\ runs = [r \in RunIds |-> NoRun]
    /\ server_agent = Absent
    /\ active_connections = <<>>
    /\ handlers = [w \in WebSockets |-> NoHandler]

Frame2 == UNCHANGED <<pc, node, session, channels, state, message, response,
                      result, calls, finished, outs, origin, lastOp, invoked,
                      writeFailed, server_agent, active_connections, handlers>>

\* run r: review_paper up to the start of app.invoke
RunStart(r, session_id) ==
    /\ pc = "concurrent"
    /\ runs[r].pc = "idle"
    /\ load(memory, session_id) = NotFound
    /\ LET written == ApplyWrites(NoState,
                          initial_state(RunSources[r], "pdf", session_id))
       IN  /\ runs' = [runs EXCEPT ![r].session = session_id,
                                   ![r].paper_source = RunSources[r],
                                   ![r].channels = written,
                                   ![r].node = EntryPoint,
                                   ![r].pc = "node"]
           /\ memory' = save(memory, session_id, written)
    /\ Frame2

\* run r: a node from its entry to the call of process_message
RunEnterNode(r) ==
    /\ pc = "concurrent"
    /\ runs[r].pc = "node"
    /\ runs[r].node # END
    /\ LET entered == NodeEntry(runs[r].node, runs[r].channels)
       IN  runs' = [runs EXCEPT
                      ![r].state = entered,
                      ![r].message = NodeRequest(runs[r].node, entered),
                      ![r].calls = Append(@, AgentOf(runs[r].node)),
                      ![r].pc = "calling"]
    /\ UNCHANGED memory
    /\ Frame2

\* run r: process_message comes back, the node returns, the graph writes
\* the channels, checkpoints under the run's thread id and follows the edge
RunLeaveNode(r) ==
    /\ pc = "concurrent"
    /\ runs[r].pc = "calling"
    /\ \E out \in RunAdapterOutcomes(r, AgentOf(runs[r].node),
                                     runs[r].message) :
          IF out.raised /\ ~Catches(runs[r].node, out)
          THEN /\ runs' = [runs EXCEPT
                             ![r].outs = Append(@, out),
                             ![r].result =
                                 FailureResult(runs[r].session, out.exc),
                             ![r].pc = "returned"]
               /\ UNCHANGED memory
          ELSE LET merged == NodeMerge(runs[r].node, runs[r].state, out)
                   written == ApplyWrites(runs[r].channels, merged)
               IN  /\ runs' = [runs EXCEPT
                                 ![r].outs = Append(@, out),
                                 ![r].state = merged,
                                 ![r].channels = written,
                                 ![r].finished = Append(@, runs[r].node),
                                 ![r].node = Edge(runs[r].node),
                                 ![r].pc = "node"]
                   /\ memory' = save(memory, runs[r].session, written)
    /\ Frame2

\* run r: app.invoke returns and review_paper builds its result
RunReturnResult(r) ==
    /\ pc = "concurrent"
    /\ runs[r].pc = "node"
    /\ runs[r].node = END
    /\ runs' = [runs EXCEPT
                  ![r].result = NormalResult(runs[r].session, runs[r].channels),
                  ![r].pc = "returned"]
    /\ UNCHANGED memory
    /\ Frame2

Next2 ==
    \E r \in RunIds :
        \/ \E session_id \in SessionIds : RunStart(r, session_id)
        \/ RunEnterNode(r)
        \/ RunLeaveNode(r)
        \/ RunReturnResult(r)

Spec2 == Init2 /\ [][Next2]_vars

\* ------------------------------------------ two runs of the same review
\* Two review_paper calls with the same input, followed side by side.  What
\* an agent does in a call is its cause: an outcome of its stage logic, or
\* the agent object raising.  The reader, the critic and the meta-reviewer
\* do the same in both runs; the citation agent succeeds in one run and
\* fails in the other.
AdapterRaises == [ok |-> FALSE, data |-> Absent, err |-> "adapter raised"]
Causes == LogicOutcomes \cup {AdapterRaises}

\* what the call of an agent's process_message produces for a cause
AdapterOutcome(agent, msg, cause) ==
    IF cause = AdapterRaises THEN Raised(<<"adapter raised">>)
    ELSE process_message(agent, msg, cause)

\* the citation agent hands back a payload the node can read
CitationSucceeds(cause) == cause.ok /\ cause.data \in Data \cup {EmptyMap}

\* the causes of the two runs at a node
CausePairs(n) ==
    IF n = "find_citations"
    THEN {c \in Causes \X Causes : CitationSucceeds(c[1]) # CitationSucceeds(c[2])}
    ELSE {<<c, c>> : c \in Causes}

InitPair ==
    /\ pc = "pair"
    /\ node = EntryPoint
    /\ session = Absent
    /\ channels = NoState
    /\ state = NoState
    /\ message = NoMessage
    /\ response = NoOutcome
    /\ memory = [t \in SessionIds |-> NotFound]
    /\ result = NoResult
    /\ calls = <<>>
    /\ finished = <<>>
    /\ outs = <<>>
    /\ origin = "none"
    /\ lastOp = "none"
    /\ invoked = <<>>
    /\ writeFailed = FALSE
    /\ runs = [r \in RunIds |-> NoRun]
    /\ server_agent = Absent
    /\ active_connections = <<>>
    /\ handlers = [w \in WebSockets |-> NoHandler]

\* both calls of review_paper up to the start of app.invoke, each with its
\* own fresh session id
PairStart(paper_source, source_type, ids) ==
    /\ pc = "pair"
    /\ \A r \in RunIds : runs[r].pc = "idle"
    /\ ids[1] # ids[2]
    /\ \A r \in RunIds : load(memory, ids[r]) = NotFound
    /\ LET written(r) == ApplyWrites(NoState,
                             initial_state(paper_source, source_type, ids[r]))
       IN  /\ runs' = [r \in RunIds |->
                          [runs[r] EXCEPT !.session = ids[r],
                                          !.paper_source = paper_source,
                                          !.channels = written(r),
                                          !.node = EntryPoint,
                                          !.pc = "node"]]
           /\ memory' = save(save(memory, ids[1], written(1)),
                             ids[2], written(2))
    /\ Frame2

\* both runs: a node from its entry to the call of process_message
PairEnterNode ==
    /\ pc = "pair"
    /\ \A r \in RunIds : runs[r].pc = "node" /\ runs[r].node # END
    /\ runs' = [r \in RunIds |->
                  LET entered == NodeEntry(runs[r].node, runs[r].channels)
                  IN  [runs[r] EXCEPT
                         !.state = entered,
                         !.message = NodeRequest(runs[r].node, entered),
                         !.calls = Append(@, AgentOf(runs[r].node)),
                         !.pc = "calling"]]
    /\ UNCHANGED memory
    /\ Frame2

\* both runs: process_message comes back, the node merges and returns, the
\* graph writes the channels, checkpoints and follows the edge
PairLeaveNode ==
    /\ pc = "pair"
    /\ \A r \in RunIds : runs[r].pc = "calling"
    /\ \E c \in CausePairs(runs[1].node) :
          LET out(r) == AdapterOutcome(AgentOf(runs[r].node),
                                       runs[r].message, c[r])
              merged(r) == NodeMerge(runs[r].node, runs[r].state, out(r))
              written(r) == ApplyWrites(runs[r].channels, merged(r))
          IN  /\ \A r \in RunIds : ~out(r).raised \/ Catches(runs[r].node, out(r))
              /\ runs' = [r \in RunIds |->
                             [runs[r] EXCEPT
                                !.outs = Append(@, out(r)),
                                !.state = merged(r),
                                !.channels = written(r),
                                !.finished = Append(@, runs[r].node),
                                !.node = Edge(runs[r].node),
                                !.pc = "node"]]
              /\ memory' = save(save(memory, runs[1].session, written(1)),
                                runs[2].session, written(2))
    /\ Frame2

\* both runs: app.invoke returns and review_paper builds its result
PairReturnResult ==
    /\ pc = "pair"
    /\ \A r \in RunIds : runs[r].pc = "node" /\ runs[r].node = END
    /\ runs' = [r \in RunIds |->
                  [runs[r] EXCEPT
                     !.result = NormalResult(runs[r].session, runs[r].channels),
                     !.pc = "returned"]]
    /\ UNCHANGED memory
    /\ Frame2

NextPair ==
    \/ \E paper_source \in Sources, source_type \in SourceTypes,
          ids \in SessionIds \X SessionIds :
          PairStart(paper_source, source_type, ids)
    \/ PairEnterNode
    \/ PairLeaveNode
    \/ PairReturnResult

SpecPair == InitPair /\ [][NextPair]_vars

\* ---------------------------------------------- the message protocol alone
\* messages as they may arrive at an agent from any client
MessageActions == {"extract_paper", "analyze_paper", "analyze_citations",
                   "generate_review", "unknown_action"}
Contexts == SessionIds \cup {EmptyMap}
RequestDatas == {EmptyData} \cup
    {[EmptyData EXCEPT !.paper_content = d] : d \in Data}

RawMessages ==
    [message_type : {"request", "response", Absent},
     sender : {"client", Absent},
     receiver : {Absent},
     payload : BOOLEAN,
     action : MessageActions \cup {Absent},
     data : RequestDatas \cup {NoData, NoneData},
     context : Contexts \cup {Absent}]

InitMsg ==
    /\ pc = "protocol"
    /\ node = EntryPoint
    /\ session = Absent
    /\ channels = NoState
    /\ state = NoState
    /\ message = NoMessage
    /\ response = NoOutcome
    /\ memory = [t \in SessionIds |-> NotFound]
    /\ result = NoResult
    /\ calls = <<>>
    /\ finished = <<>>
    /\ outs = <<>>
    /\ origin = "none"
    /\ lastOp = "none"
    /\ invoked = <<>>
    /\ writeFailed = FALSE
    /\ runs = [r \in RunIds |-> NoRun]
    /\ server_agent = Absent
    /\ active_connections = <<>>
    /\ handlers = [w \in WebSockets |-> NoHandler]

MsgFrame == UNCHANGED <<pc, node, session, channels, state, memory, result,
                        finished, outs, writeFailed, runs, server_agent,
                        active_connections, handlers>>

\* a client builds a request with MCPMessage.create_request
MsgCreateRequest ==
    /\ pc = "protocol"
    /\ origin = "none"
    /\ \E receiver \in Agents, action \in MessageActions,
          data \in RequestDatas, context \in Contexts \cup {None} :
          message' = create_request("client", receiver, action, data, context)
    /\ origin' = "create_request"
    /\ response' = NoOutcome
    /\ lastOp' = "none"
    /\ UNCHANGED <<calls, invoked>>
    /\ MsgFrame

\* any message arrives (the /process endpoint takes any JSON object)
MsgReceive ==
    /\ pc = "protocol"
    /\ origin = "none"
    /\ message' \in RawMessages
    /\ origin' = "raw"
    /\ response' = NoOutcome
    /\ lastOp' = "none"
    /\ UNCHANGED <<calls, invoked>>
    /\ MsgFrame

\* Each behaviour applies one operation to its message: the operations are
\* functions of the message alone, so nothing is lost.
\* an agent processes the message
MsgProcess ==
    /\ pc = "protocol"
    /\ origin # "none"
    /\ lastOp = "none"
    /\ calls = <<>>
    /\ \E agent \in Agents, logic \in LogicOutcomes :
          /\ response' = process_message(agent, message, logic)
          /\ calls' = Append(calls, agent)
          /\ invoked' = IF LogicInvoked(agent, message)
                        THEN Append(invoked, agent) ELSE invoked
    /\ lastOp' = "process_message"
    /\ UNCHANGED <<message, origin>>
    /\ MsgFrame

\* MCPMessage.create_response for the message
MsgCreateResponse ==
    /\ pc = "protocol"
    /\ origin # "none"
    /\ lastOp = "none"
    /\ \E sender \in Agents, data \in ResultData :
          response' = Returned(create_response(message, sender, data))
    /\ lastOp' = "create_response"
    /\ UNCHANGED <<message, origin, calls, invoked>>
    /\ MsgFrame

\* MCPMessage.create_error for the message
MsgCreateError ==
    /\ pc = "protocol"
    /\ origin # "none"
    /\ lastOp = "none"
    /\ \E sender \in Agents :
          response' = Returned(create_error(message, sender, "boom"))
    /\ lastOp' = "create_error"
    /\ UNCHANGED <<message, origin, calls, invoked>>
    /\ MsgFrame

NextMsg ==
    \/ MsgCreateRequest
    \/ MsgReceive
    \/ MsgProcess
    \/ MsgCreateResponse
    \/ MsgCreateError

SpecMsg == InitMsg /\ [][NextMsg]_vars

\* -------------------------------------------------- one BaseMCPServer
\* One server wrapping one agent.  Its websocket handlers are coroutines on
\* one event loop: each runs without interruption from one await (accept,
\* receive_text, send_text) to the next, and the handlers' steps interleave
\* in any order.  /process requests are served in between.
SrvMessages(a) ==
    {[message_type |-> "request", sender |-> "client", receiver |-> a,
      payload |-> TRUE, action |-> act, data |-> d, context |-> EmptyMap] :
        act \in {DeclaredAction(a), "unknown_action"},
        d \in {EmptyData, NoneData}}

\* a text frame: one that json.loads and message.get accept, with the
\* message it holds, or one they raise on
Frames(a) ==
    [parses : {TRUE}, message : SrvMessages(a)]
        \cup {[parses |-> FALSE, message |-> NoMessage]}

\* what the wrapped agent's stage logic does with a request: a result or an
\* exception (the server passes the envelope on whatever the result is)
SrvLogicOutcomes ==
    {[ok |-> TRUE, data |-> DataNames[1], err |-> Absent],
     [ok |-> FALSE, data |-> Absent, err |-> "boom"]}

InitSrv ==
    /\ pc = "serving"
    /\ node = EntryPoint
    /\ session = Absent
    /\ channels = NoState
    /\ state = NoState
    /\ message = NoMessage
    /\ response = NoOutcome
    /\ memory = [t \in SessionIds |-> NotFound]
    /\ result = NoResult
    /\ calls = <<>>
    /\ finished = <<>>
    /\ outs = <<>>
    /\ origin = "none"
    /\ lastOp = "none"
    /\ invoked = <<>>
    /\ writeFailed = FALSE
    /\ runs = [r \in RunIds |-> NoRun]
    /\ server_agent \in Agents
    /\ active_connections = <<>>
    /\ handlers = [w \in WebSockets |-> NoHandler]

SrvFrame == UNCHANGED <<pc, node, session, channels, state, memory, result,
                        calls, finished, origin, invoked, writeFailed, runs,
                        server_agent>>

HttpIdle == UNCHANGED <<message, response, outs, lastOp>>

\* a client opens a websocket: handle_websocket starts and awaits accept
WsConnect(w) ==
    /\ pc = "serving"
    /\ handlers[w].pc = "unconnected"
    /\ handlers' = [handlers EXCEPT ![w].pc = "accepting"]
    /\ UNCHANGED active_connections
    /\ HttpIdle
    /\ SrvFrame

\* accept returns: the websocket is appended and the loop awaits a frame
WsAccept(w) ==
    /\ pc = "serving"
    /\ handlers[w].pc = "accepting"
    /\ active_connections' = Append(active_connections, w)
    /\ handlers' = [handlers EXCEPT ![w].pc = "receiving"]
    /\ HttpIdle
    /\ SrvFrame

\* accept raises, outside the try block: the handler ends
WsAcceptFails(w) ==
    /\ pc = "serving"
    /\ handlers[w].pc = "accepting"
    /\ handlers' = [handlers EXCEPT ![w].pc = "ended", ![w].ended = "accept"]
    /\ UNCHANGED active_connections
    /\ HttpIdle
    /\ SrvFrame

\* receive_text returns a frame: it is parsed and handed to the agent; the
\* handler goes on to await send_text, or ends in "except Exception" when
\* parsing or process_message raises
WsReceive(w) ==
    /\ pc = "serving"
    /\ handlers[w].pc = "receiving"
    /\ handlers[w].received < MaxFrames
    /\ \E frame \in Frames(server_agent), logic \in SrvLogicOutcomes :
          LET n == handlers[w].received + 1
              out == process_message(server_agent, frame.message, logic)
          IN  IF ~frame.parses
              THEN /\ handlers' =
                        [handlers EXCEPT
                           ![w].received = n,
                           ![w].log = @ \o << <<"receive", n>> >>,
                           ![w].pc = "ended",
                           ![w].ended = "parse"]
                   /\ active_connections' = on_exception(active_connections, w)
              ELSE IF out.raised
              THEN /\ handlers' =
                        [handlers EXCEPT
                           ![w].received = n,
                           ![w].log = @ \o << <<"receive", n>>,
                                              <<"process_message", n>> >>,
                           ![w].pc = "ended",
                           ![w].ended = "process_message"]
                   /\ active_connections' = on_exception(active_connections, w)
              ELSE /\ handlers' =
                        [handlers EXCEPT
                           ![w].received = n,
                           ![w].log = @ \o << <<"receive", n>>,
                                              <<"process_message", n>> >>,
                           ![w].pc = "sending"]
                   /\ UNCHANGED active_connections
    /\ HttpIdle
    /\ SrvFrame

\* receive_text raises WebSocketDisconnect: the client has closed
WsDisconnect(w) ==
    /\ pc = "serving"
    /\ handlers[w].pc = "receiving"
    /\ handlers' = [handlers EXCEPT ![w].pc = "ended",
                                    ![w].ended = "disconnect"]
    /\ active_connections' = on_disconnect(active_connections, w)
    /\ HttpIdle
    /\ SrvFrame

\* the loop going back to receive_text without sending the reply
WsSend_skips_reply(w) ==
    /\ pc = "serving"
    /\ handlers[w].pc = "sending"
    /\ handlers' = [handlers EXCEPT ![w].pc = "receiving"]
    /\ UNCHANGED active_connections
    /\ HttpIdle
    /\ SrvFrame

\* send_text returns: the reply is sent and the loop awaits the next frame
WsSend(w) ==
    /\ pc = "serving"
    /\ handlers[w].pc = "sending"
    /\ handlers' = [handlers EXCEPT
                      ![w].log = @ \o << <<"send", handlers[w].received>> >>,
                      ![w].pc = "receiving"]
    /\ UNCHANGED active_connections
    /\ HttpIdle
    /\ SrvFrame

\* send_text raises: the client went away while its message was processed
WsSendFails(w) ==
    /\ pc = "serving"
    /\ handlers[w].pc = "sending"
    /\ handlers' = [handlers EXCEPT ![w].pc = "ended", ![w].ended = "send"]
    /\ active_connections' = on_exception(active_connections, w)
    /\ HttpIdle
    /\ SrvFrame

\* POST /process: outs holds what the agent did with this request, response
\* what the endpoint returns
HttpProcess ==
    /\ pc = "serving"
    /\ \E m \in SrvMessages(server_agent), logic \in SrvLogicOutcomes :
          LET out == process_message(server_agent, m, logic)
          IN  /\ message' = m
              /\ outs' = <<out>>
              /\ response' = process_endpoint(out)
    /\ lastOp' = "process"
    /\ UNCHANGED <<active_connections, handlers>>
    /\ SrvFrame

NextSrv ==
    \/ \E w \in WebSockets :
          \/ WsConnect(w)
          \/ WsAccept(w)
          \/ WsAcceptFails(w)
          \/ WsReceive(w)
          \/ WsDisconnect(w)
          \/ WsSend(w)
          \/ WsSendFails(w)
    \/ HttpProcess

SpecSrv == InitSrv /\ [][NextSrv]_vars

\* ------------------------------------------------------------- properties
IsPrefix(a, b) == Len(a) <= Len(b) /\ SubSeq(b, 1, Len(a)) = a

AgentOrder == <<"ReaderAgent", "CriticAgent", "CiteAgent", "MetaReviewerAgent">>
HardNodes == {"extract", "generate_review", "analyze"}

\* the adapter returned an error envelope or raised
AdapterFailed(out) == out.raised \/ out.env.message_type # "response"

\* the node caught an exception after it had stored the response's data
CaughtAfterStore(n, out) ==
    /\ ~out.raised
    /\ out.env.message_type = "response"
    /\ \/ n \in {"extract", "analyze", "find_citations"} /\ out.env.data = None
       \/ n \in {"analyze", "find_citations"} /\ out.env.data = BadDict

NodeFailed(n, out) == AdapterFailed(out) \/ CaughtAfterStore(n, out)

\* the response carried a non-empty, well-formed payload
Succeeded(out) ==
    ~out.raised /\ out.env.message_type = "response" /\ out.env.data \in Data

\* the first part of the error texts a node records
ErrorPrefixes(n) ==
    CASE n = "extract" -> {"Reader Agent error: ", "Extraction failed: "}
      [] n = "analyze" -> {"Critic Agent error: ", "Analysis failed: "}
      [] n = "find_citations" ->
            {"CiteAgent error: ", "Citation analysis failed: "}
      [] n = "generate_review" ->
            {"MetaReviewer error: ", "Review generation failed: "}

ErrorsOf(n, errors) == {j \in DOMAIN errors : errors[j][1] \in ErrorPrefixes(n)}

\* the node that recorded an error text
NodeIndexOf(e) == CHOOSE i \in 1..4 : e[1] \in ErrorPrefixes(Nodes[i])

ReturnedNormally == pc = "returned" /\ result.kind = "normal"

\* C1: a run that returns a normal result reports tool_calls = 4 whatever the
\* four adapters did, and the counter always equals the number of stage
\* nodes entered so far (one increment per node entry, nothing else).
C1_ToolCallsCountsStages ==
    /\ ReturnedNormally => result.metadata.tool_calls = 4
    /\ channels.tool_calls = Len(finished)
    /\ pc = "calling" => state.tool_calls = Len(calls)
    /\ pc \in {"node", "returned"} => channels.tool_calls = Len(calls)

C1_Witness ==
    /\ ReturnedNormally
    /\ result.metadata.tool_calls = 4
    /\ \E i, j, k \in 1..4 :
          /\ outs[i].raised
          /\ ~outs[j].raised /\ outs[j].env.message_type = "error"
          /\ Succeeded(outs[k])

\* C2: the adapters are called in the order extraction, critique, citation,
\* synthesis, each once; a call is made only when every earlier node has
\* finished, and at most one stage is in progress at a time.
C2_FixedSequentialOrder ==
    /\ Len(calls) <= 4
    /\ calls = SubSeq(AgentOrder, 1, Len(calls))
    /\ Len(finished) <= Len(calls)
    /\ finished = SubSeq(Nodes, 1, Len(finished))
    /\ IF pc = "calling"
       THEN Len(calls) = Len(finished) + 1
       ELSE Len(calls) = Len(finished)
    /\ ReturnedNormally => calls = AgentOrder

C2_Witness ==
    /\ pc = "calling"
    /\ node = "generate_review"
    /\ finished = <<"extract", "analyze", "find_citations">>
    /\ AdapterFailed(outs[2])

\* C3: when the adapter of a hard stage (extraction, critique, synthesis)
\* returns an error envelope or raises, the node records an error for that
\* stage, the run goes on through all four stages and review_paper returns
\* the normal result.
C3_HardFailureContinues ==
    /\ \A i \in 1..Len(finished) :
          (Nodes[i] \in HardNodes /\ AdapterFailed(outs[i]))
              => ErrorsOf(Nodes[i], channels.errors) # {}
    /\ pc = "returned" =>
          /\ result.kind = "normal"
          /\ Len(calls) = 4
          /\ \A i \in 1..4 :
                (Nodes[i] \in HardNodes /\ AdapterFailed(outs[i]))
                    => ErrorsOf(Nodes[i], result.metadata.errors) # {}

C3_Witness ==
    /\ ReturnedNormally
    /\ Len(calls) = 4
    /\ ~outs[1].raised /\ outs[1].env.message_type = "error"
    /\ outs[2].raised
    /\ ~outs[4].raised /\ outs[4].env.message_type = "error"

\* C4: the returned errors list holds exactly one entry per failed stage, in
\* pipeline order; with the citation stage the only failure it has exactly
\* one element, citation_data is {} and final_review is what synthesis
\* returned.
C4_OneErrorPerFailedStage ==
    ReturnedNormally =>
        LET errors == result.metadata.errors IN
        /\ \A i \in 1..4 :
              Cardinality(ErrorsOf(Nodes[i], errors)) =
                  IF NodeFailed(Nodes[i], outs[i]) THEN 1 ELSE 0
        /\ \A j, k \in DOMAIN errors :
              j < k => NodeIndexOf(errors[j]) < NodeIndexOf(errors[k])
        /\ (/\ NodeFailed("find_citations", outs[3])
            /\ \A i \in {1, 2, 4} : ~NodeFailed(Nodes[i], outs[i]))
              => /\ Len(errors) = 1
                 /\ result.citation_data = EmptyMap
                 /\ result.final_review = outs[4].env.data

\* C5: when the citation adapter returns an error envelope or raises and the
\* other three adapters return non-empty payloads, the result carries those
\* three payloads unchanged.
C5_SoftFailureIsolation ==
    (/\ ReturnedNormally
     /\ AdapterFailed(outs[3])
     /\ \A i \in {1, 2, 4} : Succeeded(outs[i]))
        => /\ result.paper_content = outs[1].env.data
           /\ result.critic_analysis = outs[2].env.data
           /\ result.final_review = outs[4].env.data

C5_Witness ==
    /\ ReturnedNormally
    /\ outs[3].raised
    /\ \A i \in {1, 2, 4} : Succeeded(outs[i])
    /\ result.paper_content \in Data
    /\ result.critic_analysis \in Data
    /\ result.final_review \in Data

\* C6: whenever the citation stage fails (error envelope, adapter exception,
\* or an exception caught after the data was stored), citation_data is {} in
\* the run state at the end of the node and in the synthesis request.
C6_CitationFailureEmptiesData ==
    (Len(finished) >= 3 /\ NodeFailed("find_citations", outs[3]))
        => /\ channels.citation_data = EmptyMap
           /\ Len(calls) = 4 => message.data.citation_data = EmptyMap

C6_Witness ==
    /\ pc = "calling"
    /\ node = "generate_review"
    /\ CaughtAfterStore("find_citations", outs[3])
    /\ message.data.citation_data = EmptyMap

\* C7: a normal result has errors = [] exactly when all four adapters
\* returned a response and no node caught an exception; then tool_calls = 4.
C7_NoErrorsIffAllSucceed ==
    ReturnedNormally =>
        /\ result.metadata.errors = <<>>
              <=> \A i \in 1..4 : ~NodeFailed(Nodes[i], outs[i])
        /\ (\A i \in 1..4 : ~NodeFailed(Nodes[i], outs[i]))
              => result.metadata.tool_calls = 4

C7_Witness ==
    /\ ReturnedNormally
    /\ \A i \in 1..4 : Succeeded(outs[i])
    /\ result.metadata.errors = <<>>
    /\ result.metadata.tool_calls = 4

\* C8: at every step of a run the errors held in the run state before the
\* step is a prefix of the errors held after it.
C8_ErrorsAppendOnly ==
    [][IsPrefix(channels.errors, channels'.errors)]_vars

C8_Witness ==
    /\ Len(finished) = 3
    /\ NodeFailed("extract", outs[1])
    /\ NodeFailed("find_citations", outs[3])
    /\ Len(channels.errors) > 2

\* the action and context of the request as its sender wrote them
RequestAction(m) == IF m.payload THEN m.action ELSE Absent

\* C9: every envelope an agent's process_message returns has the context
\* and the payload action of the incoming message.
C9_EnvelopeEchoesRequest ==
    (pc = "protocol" /\ lastOp = "process_message" /\ ~response.raised)
        => /\ response.env.context = message.context
           /\ response.env.action = RequestAction(message)

\* C10: for a request built by create_request, create_response and
\* create_error return an envelope with the request's action and context,
\* and leave the request as it was.
C10_FactoriesEchoRequest ==
    [][(origin = "create_request"
            /\ lastOp' \in {"create_response", "create_error"})
        => /\ message' = message
           /\ response'.env.action = message.action
           /\ response'.env.context = message.context]_vars

C10_Witness ==
    /\ origin = "create_request"
    /\ lastOp = "create_error"
    /\ message.context \in SessionIds
    /\ response.env.context = message.context
    /\ response.env.action = message.action

\* C11: process_message answers a message whose message_type is not
\* "request" with an error envelope and does not run its stage logic, even
\* when payload.action is the agent's own action.
C11_NonRequestRejected ==
    (pc = "protocol" /\ lastOp = "process_message"
        /\ message.message_type # "request")
        => /\ ~response.raised
           /\ response.env.message_type = "error"
           /\ invoked = <<>>

C13_NeverRaises ==
    (pc = "protocol" /\ lastOp = "process_message")
        => /\ ~response.raised
           /\ response.env.message_type \in {"response", "error"}

\* C14: a checkpoint write that fails during a run does not abort it: the
\* remaining stages run and review_paper returns the normal result with all
\* stage outputs.
C14_CheckpointFailureTolerated ==
    (pc = "returned" /\ writeFailed)
        => /\ result.kind = "normal"
           /\ Len(calls) = 4
           /\ result = NormalResult(session, channels)

\* C16: every value review_paper returns has session_id and a metadata
\* block with an errors list; a normal result also has the four stage
\* payloads and metadata.tool_calls.
C16_ResultAlwaysHasErrors ==
    pc = "returned"
        => /\ {"session_id", "metadata"} \subseteq DOMAIN result
           /\ "errors" \in DOMAIN result.metadata
           /\ result.kind = "normal"
                => /\ {"paper_content", "critic_analysis", "citation_data",
                       "final_review"} \subseteq DOMAIN result
                   /\ "tool_calls" \in DOMAIN result.metadata

\* C17: review_paper returns the failure result only for an exception of the
\* coordinator's own bookkeeping (here a checkpoint write); an error envelope
\* or an exception of a stage adapter never produces it and is recorded in
\* the run's errors, which a normal result reports.
C17_FailureOnlyFromBookkeeping ==
    /\ (pc = "returned" /\ result.kind = "failure") => writeFailed
    /\ (pc = "returned" /\ ~writeFailed) => result.kind = "normal"
    /\ \A i \in 1..Len(finished) :
          AdapterFailed(outs[i]) => ErrorsOf(Nodes[i], channels.errors) # {}
    /\ ReturnedNormally =>
          \A i \in 1..4 :
              AdapterFailed(outs[i])
                  => ErrorsOf(Nodes[i], result.metadata.errors) # {}

C17_Witness ==
    /\ ReturnedNormally
    /\ ~writeFailed
    /\ outs[1].raised
    /\ ~outs[2].raised /\ outs[2].env.message_type = "error"
    /\ outs[3].raised
    /\ ErrorsOf("find_citations", result.metadata.errors) # {}

\* C15: the run state is checkpointed under the run's session_id after
\* every stage transition, not only at the end: at each point of a run the
\* store holds the channels as the last transition left them, and at return
\* the checkpoint has the result's stage outputs, errors and tool_calls.
C15_CheckpointAfterEveryTransition ==
    /\ pc \in {"node", "calling", "returned"}
          => /\ load(memory, session) = Snapshot(channels)
             /\ load(memory, session).values.tool_calls = Len(finished)
    /\ ReturnedNormally
          => LET saved == load(memory, session).values
             IN  /\ saved.paper_content = result.paper_content
                 /\ saved.critic_analysis = result.critic_analysis
                 /\ saved.citation_data = result.citation_data
                 /\ saved.final_review = result.final_review
                 /\ saved.errors = result.metadata.errors
                 /\ saved.tool_calls = result.metadata.tool_calls

C15_Witness ==
    /\ pc = "calling"
    /\ Len(finished) = 2
    /\ load(memory, session).found
    /\ load(memory, session).values.tool_calls = 2
    /\ load(memory, session).values.stage = "analysis"
    /\ load(memory, session).values.errors # <<>>

\* the run state of a run had it executed alone: its own input and its own
\* adapter outcomes put through the nodes one after the other
RECURSIVE AloneChannels(_, _)
AloneChannels(run, k) ==
    IF k = 0
    THEN ApplyWrites(NoState,
             initial_state(run.paper_source, "pdf", run.session))
    ELSE LET before == AloneChannels(run, k - 1)
         IN  ApplyWrites(before,
                 NodeMerge(Nodes[k], NodeEntry(Nodes[k], before), run.outs[k]))

\* the texts a run's agents produce
RunTexts(r) == {DataNames[r]}

\* the payloads and error details held in a channel state
TextsIn(ch) ==
    ({ch.paper_content, ch.critic_analysis, ch.citation_data, ch.final_review}
        \cup {ch.errors[j][2] : j \in DOMAIN ch.errors})

\* C18: two runs with distinct session ids, interleaved in any order, do not
\* interfere: each run's state, checkpoint and result are what its own input
\* and adapter outcomes give when run alone, and nothing the other run's
\* agents produced appears in its state or its checkpoint.
C18_RunsDoNotInterfere ==
    \A r \in RunIds : runs[r].pc # "idle" =>
        /\ \A q \in RunIds \ {r} :
              runs[q].pc # "idle" => runs[q].session # runs[r].session
        /\ runs[r].channels = AloneChannels(runs[r], Len(runs[r].finished))
        /\ load(memory, runs[r].session).found
        /\ load(memory, runs[r].session).values
              = AloneChannels(runs[r], Len(runs[r].finished))
        /\ \A q \in RunIds \ {r} :
              /\ TextsIn(runs[r].channels) \cap RunTexts(q) = {}
              /\ TextsIn(load(memory, runs[r].session).values)
                    \cap RunTexts(q) = {}
        /\ runs[r].pc = "returned" =>
              runs[r].result
                  = NormalResult(runs[r].session, AloneChannels(runs[r], 4))

C18_Witness ==
    /\ runs[1].pc = "returned"
    /\ runs[2].pc = "calling"
    /\ runs[2].node = "find_citations"
    /\ Len(runs[1].finished) = 4
    /\ runs[1].result.metadata.errors # <<>>
    /\ runs[1].result.final_review = DataNames[1]
    /\ runs[2].channels.errors # <<>>
    /\ runs[2].channels.paper_content = DataNames[2]

\* the run that uses a thread id
RunsOf(t) == {r \in RunIds : runs[r].pc # "idle" /\ runs[r].session = t}

StageNames ==
    <<"extraction", "analysis", "citation_analysis", "review_generation">>

\* C20 as stated: after synthesis has finished and the result is returned,
\* the run's recorded stage is a distinct completed state.
C20_EndsCompleted ==
    ReturnedNormally
        => /\ channels.stage = "completed"
           /\ load(memory, session).values.stage = "completed"

\* C20 amended: the recorded stage goes initialized, extraction, analysis,
\* citation_analysis, review_generation in that order, and it is still
\* review_generation when the result is returned.
C20_StageProgression ==
    /\ pc \in {"node", "calling", "returned"}
          => channels.stage = IF finished = <<>> THEN "initialized"
                              ELSE StageNames[Len(finished)]
    /\ pc = "calling" => state.stage = StageNames[Len(calls)]
    /\ ReturnedNormally
          => /\ channels.stage = "review_generation"
             /\ load(memory, session).values.stage = "review_generation"

C20_Witness ==
    /\ ReturnedNormally
    /\ channels.stage = "review_generation"
    /\ load(memory, session).values.stage = "review_generation"
    /\ Len(finished) = 4

\* C21: when every adapter call comes back, a review_paper call that has
\* started returns a value, normal or failure; it makes at most four adapter
\* calls, and the graph only ever moves from a node to the next one in
\* pipeline order, never back and never around.
C21_EventuallyReturns ==
    /\ (pc \in {"node", "calling"}) ~> (pc = "returned")
    /\ [](/\ Len(calls) <= 4
          /\ pc = "returned" => result.kind \in {"normal", "failure"})
    /\ [][/\ IsPrefix(finished, finished')
          /\ IsPrefix(calls, calls')
          /\ node' # node =>
                \E i \in 1..4 :
                    /\ node = Nodes[i]
                    /\ node' = IF i = 4 THEN END ELSE Nodes[i + 1]
          /\ pc = "returned" => pc' = "returned"]_vars

C21_Witness ==
    /\ pc = "returned"
    /\ result.kind = "normal"
    /\ Len(calls) = 4
    /\ \A i \in 1..4 : AdapterFailed(outs[i])
    /\ outs[2].raised
    /\ ~outs[4].raised

\* the position of a stage value in the pipeline; 0 before the first node
StageRank(s) ==
    IF s \in {Absent, "initialized"} THEN 0
    ELSE CHOOSE i \in 1..4 : StageNames[i] = s

\* C22: when the k-th adapter is invoked the state the node holds has the
\* k-th stage's name in stage and k in tool_calls, and the agent called is
\* the k-th of the pipeline; from one step to the next the stage, in the
\* node's state and in the channels, never goes back to an earlier name.
C22_StageAtInvocation ==
    /\ [](pc = "calling" =>
            /\ Len(calls) \in 1..4
            /\ calls[Len(calls)] = AgentOrder[Len(calls)]
            /\ message.receiver = AgentOrder[Len(calls)]
            /\ state.stage = StageNames[Len(calls)]
            /\ state.tool_calls = Len(calls))
    /\ [][/\ StageRank(state'.stage) >= StageRank(state.stage)
          /\ StageRank(channels'.stage) >= StageRank(channels.stage)
          /\ StageRank(state'.stage) >= StageRank(channels.stage)]_vars

C22_Witness ==
    /\ pc = "calling"
    /\ Len(calls) = 4
    /\ state.stage = "review_generation"
    /\ state.tool_calls = 4
    /\ channels.stage = "citation_analysis"
    /\ AdapterFailed(outs[1])
    /\ AdapterFailed(outs[3])

\* what the i-th node leaves in its output slot: the data of a response
\* envelope (kept even when the node then catches an exception, except in
\* the citation node, which resets its slot), otherwise the initial {}
SlotAfter(i) ==
    IF AdapterFailed(outs[i]) THEN EmptyMap
    ELSE IF Nodes[i] = "find_citations" /\ NodeFailed(Nodes[i], outs[i])
         THEN EmptyMap
         ELSE outs[i].env.data

\* the request data of the k-th node as the outcomes of the earlier nodes
\* determine it
ExpectedRequestData(k) ==
    CASE k = 1 -> [EmptyData EXCEPT !.source = channels.paper_source,
                                    !.source_type = channels.source_type]
      [] k = 2 -> [EmptyData EXCEPT !.paper_content = SlotAfter(1)]
      [] k = 3 -> [EmptyData EXCEPT !.paper_content = SlotAfter(1),
                                    !.max_related = "10"]
      [] k = 4 -> [EmptyData EXCEPT !.paper_content = SlotAfter(1),
                                    !.critic_analysis = SlotAfter(2),
                                    !.citation_data = SlotAfter(3)]

\* each request carries the run state's current outputs
RequestCarriesState ==
    pc = "calling" =>
        LET k == Len(calls)
            d == message.data
        IN  /\ k >= 2 => d.paper_content = channels.paper_content
            /\ k = 4 => /\ d.critic_analysis = channels.critic_analysis
                        /\ d.citation_data = channels.citation_data

PairFailed == CHOOSE r \in RunIds : NodeFailed("find_citations", runs[r].outs[3])
PairClean == CHOOSE r \in RunIds : r # PairFailed

\* C24: of two runs with the same input and the same extraction and
\* critique outcomes, one with a failing and one with a succeeding citation
\* adapter, the synthesis requests carry the same paper_content and
\* critic_analysis, and these are what extraction and critique left; the
\* runs' states differ in nothing but citation_data, errors and their
\* session ids.
C24_CitationFailureNonInterference ==
    (pc = "pair" /\ Len(runs[1].finished) >= 3) =>
        /\ NodeFailed("find_citations", runs[1].outs[3])
              # NodeFailed("find_citations", runs[2].outs[3])
        /\ [runs[1].channels EXCEPT !.citation_data = EmptyMap,
                                    !.errors = <<>>, !.session_id = Absent]
              = [runs[2].channels EXCEPT !.citation_data = EmptyMap,
                                         !.errors = <<>>, !.session_id = Absent]
        /\ runs[PairFailed].channels.paper_content
              = AloneChannels(runs[PairFailed], 2).paper_content
        /\ runs[PairFailed].channels.critic_analysis
              = AloneChannels(runs[PairFailed], 2).critic_analysis
        /\ Len(runs[1].calls) = 4 =>
              /\ runs[1].message.data.paper_content
                    = runs[2].message.data.paper_content
              /\ runs[1].message.data.critic_analysis
                    = runs[2].message.data.critic_analysis
              /\ runs[PairFailed].message.data.citation_data = EmptyMap
        /\ ErrorsOf("find_citations", runs[PairFailed].channels.errors) # {}
        /\ ErrorsOf("find_citations", runs[PairClean].channels.errors) = {}

C24_Witness ==
    /\ pc = "pair"
    /\ \A r \in RunIds : runs[r].pc = "calling" /\ Len(runs[r].calls) = 4
    /\ runs[1].outs[3].raised
    /\ Succeeded(runs[2].outs[3])
    /\ \A r \in RunIds :
          /\ runs[r].message.data.paper_content = DataNames[1]
          /\ runs[r].message.data.critic_analysis = DataNames[2]
    /\ runs[1].message.data.citation_data = EmptyMap
    /\ runs[2].message.data.citation_data \in Data

\* the adapter answered with an error envelope
ErrorEnvelope(out) == ~out.raised /\ out.env.message_type = "error"

\* a state with the three fields a failing hard node may change blanked
OutsideErrorFrame(st) ==
    [st EXCEPT !.errors = <<>>, !.stage = Absent, !.tool_calls = 0]

\* the output slot a node writes
SlotOf(n, st) ==
    CASE n = "extract" -> st.paper_content
      [] n = "analyze" -> st.critic_analysis
      [] n = "find_citations" -> st.citation_data
      [] n = "generate_review" -> st.final_review

\* C25: a hard node whose adapter answers with an error envelope changes
\* only errors, stage and tool_calls: its own output slot stays the initial
\* {}, and the other slots, the input fields and session_id are what they
\* were before the node, in the state it returns and in the channels.
C25_HardErrorFrame ==
    [][(/\ pc = "calling"
        /\ pc' = "node"
        /\ node \in HardNodes
        /\ ErrorEnvelope(response'))
        => /\ OutsideErrorFrame(state') = OutsideErrorFrame(channels)
           /\ OutsideErrorFrame(channels') = OutsideErrorFrame(channels)
           /\ SlotOf(node, channels) = EmptyMap
           /\ SlotOf(node, channels') = EmptyMap
           /\ channels'.stage = state.stage
           /\ channels'.tool_calls = channels.tool_calls + 1
           /\ Len(channels'.errors) > Len(channels.errors)]_vars

C25_Witness ==
    /\ pc = "node"
    /\ finished = <<"extract", "analyze">>
    /\ Succeeded(outs[1])
    /\ ErrorEnvelope(outs[2])
    /\ channels.paper_content = outs[1].env.data
    /\ channels.critic_analysis = EmptyMap
    /\ channels.stage = "analysis"
    /\ channels.tool_calls = 2
    /\ ErrorsOf("analyze", channels.errors) # {}

\* C26: an extraction or critique node that has recorded an error for its
\* stage has left its output slot unwritten (still the initial {}): no run
\* has both the adapter's data stored in the slot and an error of that stage.
C26_ErrorOnlyIfSlotUnwritten ==
    \A i \in 1..Len(finished) :
        (Nodes[i] \in {"extract", "analyze"}
            /\ ErrorsOf(Nodes[i], channels.errors) # {})
          => SlotOf(Nodes[i], channels) = EmptyMap

\* the handlers between accept and termination
RunningHandlers == {w \in WebSockets : handlers[w].pc \in {"receiving", "sending"}}

\* the places of a websocket in the list
PlacesOf(connections, w) == {i \in DOMAIN connections : connections[i] = w}

RECURSIVE Exchanges(_)
Exchanges(k) ==
    IF k = 0 THEN <<>>
    ELSE Exchanges(k - 1) \o
            << <<"receive", k>>, <<"process_message", k>>, <<"send", k>> >>

\* the log of a handler whose last message got as far as `steps`
LogUpTo(h, steps) == Exchanges(h.received - 1) \o steps

\* the log of a handler that has not ended
LiveLogOk(h) ==
    CASE h.pc \in {"unconnected", "accepting"} ->
            h.received = 0 /\ h.log = <<>>
      [] h.pc = "receiving" -> h.log = Exchanges(h.received)
      [] h.pc = "sending" ->
            /\ h.received >= 1
            /\ h.log = LogUpTo(h, << <<"receive", h.received>>,
                                     <<"process_message", h.received>> >>)
      [] h.pc = "ended" -> TRUE

\* the log of a handler that ended for one of the reasons the statement
\* names: no reply for the message that could not be parsed or whose
\* processing raised, every earlier message answered
EndedLogOk(h) ==
    CASE h.ended = "accept" -> h.received = 0 /\ h.log = <<>>
      [] h.ended = "disconnect" -> h.log = Exchanges(h.received)
      [] h.ended = "parse" ->
            /\ h.received >= 1
            /\ h.log = LogUpTo(h, << <<"receive", h.received>> >>)
      [] h.ended = "process_message" ->
            /\ h.received >= 1
            /\ h.log = LogUpTo(h, << <<"receive", h.received>>,
                                     <<"process_message", h.received>> >>)
      [] OTHER -> FALSE

\* C28 as stated: on each connection every received message gets one call
\* of process_message and one reply, sent before the next message is
\* received; only a message that cannot be parsed or whose processing
\* raises ends the handler without a reply.
C28_EveryMessageAnswered ==
    pc = "serving" =>
        \A w \in WebSockets :
            /\ LiveLogOk(handlers[w])
            /\ handlers[w].pc = "ended" => EndedLogOk(handlers[w])

\* C28 amended: as above, and a message whose reply cannot be sent (send_text
\* raises) has had its one call of process_message and ends the handler
\* without a reply as well.
C28_RepliesInOrder ==
    pc = "serving" =>
        \A w \in WebSockets :
            LET h == handlers[w]
            IN  /\ LiveLogOk(h)
                /\ h.pc = "ended" =>
                      IF h.ended = "send"
                      THEN /\ h.received >= 1
                           /\ h.log = LogUpTo(h,
                                  << <<"receive", h.received>>,
                                     <<"process_message", h.received>> >>)
                      ELSE EndedLogOk(h)

C28_Witness ==
    /\ pc = "serving"
    /\ handlers["ws1"].pc = "ended"
    /\ handlers["ws1"].ended = "send"
    /\ handlers["ws1"].received = 2
    /\ handlers["ws1"].log = << <<"receive", 1>>, <<"process_message", 1>>,
                                <<"send", 1>>, <<"receive", 2>>,
                                <<"process_message", 2>> >>
    /\ handlers["ws2"].pc = "receiving"
    /\ handlers["ws2"].log = Exchanges(2)

\* C29: /process returns a value for every message: the agent's envelope
\* when process_message returns, an envelope of message_type "error" with
\* the exception's text when it raises; the endpoint never raises, and
\* serving a request leaves active_connections and the handlers alone.
C29_ProcessAlwaysAnswers ==
    /\ []((pc = "serving" /\ lastOp = "process") =>
            /\ ~response.raised
            /\ response.env.message_type \in {"response", "error"}
            /\ IF outs[1].raised
               THEN /\ response.env.message_type = "error"
                    /\ response.env.error = outs[1].exc
               ELSE response = outs[1])
    /\ [][(/\ pc = "serving"
           /\ lastOp' = "process"
           /\ <<message, outs, response, lastOp>>'
                 # <<message, outs, response, lastOp>>)
            => /\ active_connections' = active_connections
               /\ handlers' = handlers]_vars

C29_Witness ==
    /\ pc = "serving"
    /\ lastOp = "process"
    /\ message.data.tag = "none"
    /\ outs[1].raised
    /\ ~response.raised
    /\ response.env.message_type = "error"
    /\ response.env.error = <<"AttributeError">>
    /\ active_connections = <<"ws2", "ws1">>

====
